---- MODULE Spec2Model ----
(***************************************************************************)
(* ephox.robin.anteater.Anteater: fossil(universe, isRoot, start, finish). *)
(* The universe is an ordered forest of nodes; fossil finds the shared     *)
(* ancestor of start and finish, breaks the path from finish and then the  *)
(* path from start up to it, and slices the shared ancestor's children.    *)
(***************************************************************************)
EXTENDS Integers, Sequences, FiniteSets, TLC

\* ---------------------------------------------------------------- bounds
MaxNodes == 5    \* nodes of the document before the call
MaxRoots == 2    \* nodes for which the caller's isRoot predicate holds
MaxFresh == 2    \* clones the universe can still create

Orig  == 1..MaxNodes
Nodes == 1..(MaxNodes + MaxFresh)
None  == 0

VARIABLES
  kids,         \* universe.property().children: node -> ordered children
  live,         \* the nodes that exist in the universe
  start,        \* fossil's argument start
  finish,       \* fossil's argument finish
  roots,        \* the nodes n with isRoot(n)
  pc,           \* the statement of fossil that runs next
  common,       \* the value of shared (None: Option.none)
  secondBreak,  \* the result of breakRight
  firstBreak,   \* the result of breakLeft
  result,       \* what fossil returns
  kids0         \* children as they were when fossil was called

vars == <<kids, live, start, finish, roots, pc, common, secondBreak, firstBreak, result, kids0>>

\* ------------------------------------------------------- sequences, Option
Range(s) == {s[i] : i \in 1..Len(s)}

RECURSIVE SortedSeq(_)
SortedSeq(S) ==
  IF S = {} THEN <<>>
  ELSE LET m == CHOOSE x \in S : \A y \in S : x <= y
       IN  <<m>> \o SortedSeq(S \ {m})

\* Arr.findIndex(children, Fun.curry(universe.eq, x)): 0-based, -1 when absent
findIndex(s, x) ==
  IF \E i \in 1..Len(s) : s[i] = x
  THEN (CHOOSE i \in 1..Len(s) : s[i] = x /\ \A j \in 1..(i - 1) : s[j] # x) - 1
  ELSE -1

\* Array.prototype.slice(fi, li) for 0 <= fi, 0 <= li: the items at 0-based fi .. li-1
arraySlice(s, fi, li) ==
  LET hi == IF li > Len(s) THEN Len(s) ELSE li
  IN  IF fi >= hi THEN <<>> ELSE SubSeq(s, fi + 1, hi)

OptionNone    == [some |-> FALSE, val |-> <<>>]
OptionSome(v) == [some |-> TRUE, val |-> v]

\* ------------------------------------------------------------ the universe
\* universe.property().parent(n): None when n has no parent
parent(k, n) ==
  IF \E p \in Nodes : n \in Range(k[p])
  THEN CHOOSE p \in Nodes : n \in Range(k[p])
  ELSE None

\* the ADT of lines 16-19
adtParent(e)     == [tag |-> "parent", element |-> e]
adtDescendant(e) == [tag |-> "descendant", element |-> e]
Unset            == [tag |-> "unset", element |-> None]

\* ------------------------------------------------------- documents (Init)
RECURSIVE ChainPar(_, _)
ChainPar(par, n) == {n} \cup (IF par[n] = 0 THEN {} ELSE ChainPar(par, par[n]))

\* forests whose nodes are numbered in document order (preorder)
ValidPar(par) ==
  /\ \A i \in Orig : par[i] < i
  /\ \A i \in Orig : i > 1 => (par[i] = 0 \/ par[i] \in ChainPar(par, i - 1))

KidsOf(par) == [p \in Nodes |-> SortedSeq({i \in Orig : par[i] = p})]

Init ==
  /\ \E par \in [Orig -> 0..MaxNodes] : ValidPar(par) /\ kids = KidsOf(par)
  /\ kids0 = kids
  /\ live = Orig
  /\ start \in Orig
  /\ finish \in Orig
  /\ start <= finish
  /\ roots \in {S \in SUBSET Orig : Cardinality(S) <= MaxRoots}
  /\ pc = "shared"
  /\ common = None
  /\ secondBreak = Unset
  /\ firstBreak = Unset
  /\ result = OptionNone

\* --------------------------------------------- Subset.ancestors, sharedOne
\* ancestorsUntil(node, stop): the proper ancestors of node, nearest first,
\* up to and excluding the first one for which stop holds
RECURSIVE ancestorsUntil(_, _, _)
ancestorsUntil(k, n, stop) ==
  LET p == parent(k, n)
  IN  IF p = None \/ p \in stop THEN <<>>
      ELSE <<p>> \o ancestorsUntil(k, p, stop)

\* the chain of Subset.ancestors: the node itself, then ancestorsUntil(node, isRoot)
chain(k, n, stop) == <<n>> \o ancestorsUntil(k, n, stop)

\* Subset.ancestors(universe, start, finish, isRoot).shared(): the first node of
\* start's chain that is also on finish's chain
subsetShared(k, s, f, stop) ==
  LET c1 == chain(k, s, stop)
      c2 == chain(k, f, stop)
      on == {i \in 1..Len(c1) : c1[i] \in Range(c2)}
  IN  IF on = {} THEN None
      ELSE c1[CHOOSE i \in on : \A j \in on : i <= j]

\* PredicateFind.closest(elem, isRoot): elem itself or its nearest ancestor
\* for which isRoot holds
RECURSIVE closest(_, _, _)
closest(k, n, stop) ==
  IF n = None THEN None
  ELSE IF n \in stop THEN n
  ELSE closest(k, parent(k, n), stop)

\* Parent.sharedOne(universe, look, [start, finish]) with the look of lines 94-96:
\* the node both looks find, when they find the same one
sharedOne(k, s, f, stop) ==
  LET a == closest(k, s, stop)
      b == closest(k, f, stop)
  IN  IF a # None /\ a = b THEN a ELSE None

\* shared with the fallback mistaken for a default: start itself
sharedDefaultsToStart(k, s, f, stop) ==
  LET sh == subsetShared(k, s, f, stop)
  IN  IF sh = None THEN s ELSE sh

\* shared that ignores the chains and always searches for the isRoot ancestor
sharedFallbackOnly(k, s, f, stop) == sharedOne(k, s, f, stop)

\* lines 92-100: subset.shared().fold(fallback, Option.some)
shared(k, s, f, stop) ==
  LET sh == subsetShared(k, s, f, stop)
  IN  IF sh = None THEN sharedOne(k, s, f, stop) ELSE sh

\* ------------------------------------------------------ Parent.breakAt
Unbroken(k, lv) == [some |-> FALSE, kids |-> k, live |-> lv, left |-> None, right |-> None]

\* the child list s with the item x replaced by the items of r
replaceIn(s, x, r) ==
  LET i == findIndex(s, x) + 1
  IN  IF i = 0 THEN s ELSE SubSeq(s, 1, i - 1) \o r \o SubSeq(s, i + 1, Len(s))

\* the child list s without the item x
removeFrom(s, x) == replaceIn(s, x, <<>>)

\* Parent.breakAt(universe, parent, child): nothing when child is the first child
\* (or no child) of parent; otherwise two shells of parent take parent's place,
\* the left one with the children before child, the right one with child and
\* the children after it
breakAt(k, lv, par, child) ==
  LET children == k[par]
      idx == findIndex(children, child)
      free == Nodes \ lv
  IN  IF idx < 1 \/ Cardinality(free) < 2 THEN Unbroken(k, lv)
      ELSE LET l == CHOOSE x \in free : \A y \in free : x <= y
               r == CHOOSE x \in free \ {l} : \A y \in free \ {l} : x <= y
               gp == parent(k, par)
               k1 == [k EXCEPT ![l] = SubSeq(children, 1, idx),
                               ![r] = SubSeq(children, idx + 1, Len(children)),
                               ![par] = <<>>]
               k2 == IF gp = None THEN k1
                     ELSE [k1 EXCEPT ![gp] = replaceIn(k[gp], par, <<l, r>>)]
           IN  [some |-> TRUE, kids |-> k2, live |-> (lv \ {par}) \cup {l, r},
                left |-> l, right |-> r]

\* universe.insert().prepend(container, child): child moves to the front of container
prepend(k, container, child) ==
  LET k1 == [p \in Nodes |-> removeFrom(k[p], child)]
  IN  [k1 EXCEPT ![container] = <<child>> \o k1[container]]

\* lines 21-30: breakAt, then the child is moved into the second part of the break
breaker(k, lv, par, child) ==
  LET brk == breakAt(k, lv, par, child)
  IN  IF brk.some THEN [brk EXCEPT !.kids = prepend(brk.kids, brk.right, child)]
      ELSE brk

\* ------------------------------------------------------------- isTop
\* the predicate breakLeft and breakRight mean to hand over: isTop applied to
\* the universe and the common ancestor first
isTopCurried(k, n) == parent(k, n) = None \/ parent(k, n) = common

\* lines 53-66 as breakPath calls it, isTop(child): the call binds child to the
\* parameter named universe and returns the inner function without running it;
\* a function is a truthy value, so the test succeeds for every node
isTop(k, n) == TRUE

\* ------------------------------------------------------ Parent.breakPath
\* breakPath(universe, item, isTop, breaker): walk up from item while isTop is
\* false, breaking each parent at the child reached; first is the node the walk
\* ends at, second the right half of the last break
RECURSIVE breakPathNext(_, _, _, _, _)
breakPathNext(k, lv, child, group, brkFn) ==
  IF isTop(k, child) THEN [kids |-> k, live |-> lv, first |-> child, second |-> group]
  ELSE LET p == parent(k, child)
           fallback == [kids |-> k, live |-> lv, first |-> child, second |-> None]
       IN  IF p = None THEN fallback
           ELSE LET b == IF brkFn = "breaker" THEN breaker(k, lv, p, child)
                         ELSE breakAt(k, lv, p, child)
                IN  IF ~b.some THEN fallback
                    ELSE breakPathNext(b.kids, b.live, b.left, b.right, brkFn)

breakPath(k, lv, item, brkFn) == breakPathNext(k, lv, item, None, brkFn)

\* ---------------------------------------------------- breakLeft, breakRight
\* breakLeft that takes the element out of its parent and never puts it back
breakLeftDetach(k, lv, element, cmn) ==
  IF cmn = element THEN [kids |-> k, live |-> lv, adt |-> adtParent(element)]
  ELSE [kids |-> [p \in Nodes |-> removeFrom(k[p], element)], live |-> lv,
        adt |-> adtDescendant(element)]

\* lines 69-78
breakLeft(k, lv, element, cmn) ==
  IF cmn = element THEN [kids |-> k, live |-> lv, adt |-> adtParent(element)]
  ELSE LET breakage == breakPath(k, lv, element, "breaker")
       IN  [kids |-> breakage.kids, live |-> breakage.live,
            adt |-> adtDescendant(IF breakage.second # None THEN breakage.second
                                  ELSE element)]

\* lines 80-89
breakRight(k, lv, element, cmn) ==
  IF cmn = element THEN [kids |-> k, live |-> lv, adt |-> adtParent(element)]
  ELSE LET breakage == breakPath(k, lv, element, "breakAt")
       IN  [kids |-> breakage.kids, live |-> breakage.live,
            adt |-> adtDescendant(breakage.first)]

\* ------------------------------------------------------------- slice
\* lines 33-51
slice(k, par, first, last) ==
  LET children == k[par]
      fi == IF first.tag = "parent" THEN 0 ELSE findIndex(children, first.element)
      li == IF last.tag = "parent" THEN Len(children)
            ELSE findIndex(children, last.element) + 1
  IN  IF fi > -1 /\ li > -1 THEN OptionSome(arraySlice(children, fi, li))
      ELSE OptionNone

\* ------------------------------------------------------------- fossil
\* fossil with the two breaks in the other order
fossilStepsLeftFirst == <<"shared", "breakLeft", "breakRight", "slice", "done">>

\* lines 91-114: the order of fossil's statements
fossilSteps == <<"shared", "breakRight", "breakLeft", "slice", "done">>

After(step) == fossilSteps[(CHOOSE i \in 1..Len(fossilSteps) : fossilSteps[i] = step) + 1]

\* lines 92-103: shared is computed; shared.bind runs the rest only when it is some
Shared ==
  /\ pc = "shared"
  /\ common' = shared(kids, start, finish, roots)
  /\ pc' = IF common' = None THEN "done" ELSE After("shared")
  /\ result' = OptionNone
  /\ UNCHANGED <<kids, live, start, finish, roots, secondBreak, firstBreak, kids0>>

\* line 108
BreakRight ==
  /\ pc = "breakRight"
  /\ LET r == breakRight(kids, live, finish, common)
     IN  /\ kids' = r.kids
         /\ live' = r.live
         /\ secondBreak' = r.adt
  /\ pc' = After("breakRight")
  /\ UNCHANGED <<start, finish, roots, common, firstBreak, result, kids0>>

\* line 109
BreakLeft ==
  /\ pc = "breakLeft"
  /\ LET r == breakLeft(kids, live, start, common)
     IN  /\ kids' = r.kids
         /\ live' = r.live
         /\ firstBreak' = r.adt
  /\ pc' = After("breakLeft")
  /\ UNCHANGED <<start, finish, roots, common, secondBreak, result, kids0>>

\* line 112
Slice ==
  /\ pc = "slice"
  /\ result' = slice(kids, common, firstBreak, secondBreak)
  /\ pc' = After("slice")
  /\ UNCHANGED <<kids, live, start, finish, roots, common, secondBreak, firstBreak, kids0>>

Next == Shared \/ BreakRight \/ BreakLeft \/ Slice


Spec == Init /\ [][Next]_vars

\* ------------------------------------------------ document order, content
\* n and all its ancestors
RECURSIVE AncSelf(_, _)
AncSelf(k, n) == IF n = None THEN {} ELSE {n} \cup AncSelf(k, parent(k, n))

\* the nodes of the subtrees of the items of seq, in document order
RECURSIVE PreList(_, _)
PreList(k, seq) ==
  IF seq = <<>> THEN <<>>
  ELSE <<Head(seq)>> \o PreList(k, k[Head(seq)]) \o PreList(k, Tail(seq))

DocOrder(k, lv) == PreList(k, SortedSeq({n \in lv : parent(k, n) = None}))

\* the content nodes: the leaves of the document fossil was called on
IsContentLeaf(n) == n \in Orig /\ kids0[n] = <<>>
IsOriginal(n) == n \in Orig

LeafSeq(k, lv)     == SelectSeq(DocOrder(k, lv), IsContentLeaf)
LeavesUnder(k, seq) == SelectSeq(PreList(k, seq), IsContentLeaf)

Increasing(s) == \A i \in 1..Len(s) : \A j \in 1..Len(s) : i < j => s[i] < s[j]

\* the part of n's chain below its first isRoot proper ancestor, as a set
ChainSet(k, n, stop) ==
  {a \in AncSelf(k, n) : \A x \in (stop \cap AncSelf(k, n)) \ {n} : a \notin AncSelf(k, x)}

\* r is the nearest node with isRoot among n and its ancestors
NearestRoot(k, n, stop, r) ==
  /\ r \in stop \cap AncSelf(k, n)
  /\ \A x \in stop \cap AncSelf(k, n) : x \in AncSelf(k, r)

ChainsIntersect == ChainSet(kids0, start, roots) \cap ChainSet(kids0, finish, roots) # {}

NoCommonAncestor ==
  /\ ~ChainsIntersect
  /\ ~\E r \in Orig : NearestRoot(kids0, start, roots, r) /\ NearestRoot(kids0, finish, roots, r)

\* n is the first (last) child of a parent other than the common ancestor
FirstChildBelow(k, n) ==
  LET p == parent(k, n) IN p # None /\ p # common /\ n # common /\ Head(k[p]) = n
LastChildBelow(k, n) ==
  LET p == parent(k, n) IN p # None /\ p # common /\ n # common /\ k[p][Len(k[p])] = n

\* start and finish both lie below a child of the common ancestor
CrossLevel ==
  /\ common # None /\ common # start /\ common # finish
  /\ parent(kids0, start) # common
  /\ parent(kids0, finish) # common

\* ------------------------------------------------------------------ C1
LeavesBetween ==
  LET lastOfFinish == CHOOSE m \in Orig :
        /\ finish \in AncSelf(kids0, m)
        /\ \A x \in Orig : finish \in AncSelf(kids0, x) => x <= m
  IN  SelectSeq(SelectSeq(DocOrder(kids0, Orig), IsContentLeaf),
                LAMBDA n : start <= n /\ n <= lastOfFinish)

\* C1: whenever a common ancestor exists, fossil returns a sequence whose
\* descendant leaves, in order, are exactly the leaves from start to finish
\* inclusive of the document as it was before the call (stated here for two
\* different boundary nodes; C4 states the case start = finish).
C1_SliceIsTheContentBetween ==
  (pc = "done" /\ common # None /\ start # finish) =>
     (result.some /\ LeavesUnder(kids, result.val) = LeavesBetween)

C3_NoCommonAncestorLeavesTreeAlone ==
  (pc = "done" /\ NoCommonAncestor) =>
     /\ result = OptionNone
     /\ kids = kids0
     /\ live = Orig
     /\ secondBreak = Unset
     /\ firstBreak = Unset

C3_Witness ==
  /\ pc = "done"
  /\ NoCommonAncestor
  /\ AncSelf(kids0, start) \cap AncSelf(kids0, finish) = {}
  /\ result = OptionNone

\* ------------------------------------------------------------------ C4
\* C4: fossil(n, n) returns a sequence of exactly one element, n or the run
\* that holds only n's content.
C4_IdentityIsOneElement ==
  (pc = "done" /\ start = finish /\ common # None) =>
     /\ result.some
     /\ Len(result.val) = 1
     /\ LeavesUnder(kids, result.val) = LeavesUnder(kids0, <<start>>)

\* ------------------------------------------------------------------ C5
\* C5: when start and finish are children of the same parent P, start at or
\* before finish, and a common ancestor is found, fossil returns P's children
\* from start to finish inclusive and edits nothing.
C5_SameParentRun ==
  LET P == parent(kids0, start)
  IN  (pc = "done" /\ common # None /\ P # None /\ P = parent(kids0, finish)) =>
         /\ result = OptionSome(SubSeq(kids0[P], findIndex(kids0[P], start) + 1,
                                       findIndex(kids0[P], finish) + 1))
         /\ kids = kids0
         /\ live = Orig

IsLowestCommon(c) ==
  /\ c \in AncSelf(kids0, start) \cap AncSelf(kids0, finish)
  /\ \A ch \in Range(kids0[c]) :
        ~(ch \in AncSelf(kids0, start) /\ ch \in AncSelf(kids0, finish))

\* C7: when the chains of start and finish intersect, the common ancestor is
\* their lowest common ancestor-or-self; when they do not, a common ancestor is
\* the nearest node with isRoot among the ancestors-or-self of both.
C7_CommonIsLowest ==
  (pc # "shared") =>
     IF ChainsIntersect THEN IsLowestCommon(common)
     ELSE common # None =>
            (NearestRoot(kids0, start, roots, common) /\ NearestRoot(kids0, finish, roots, common))

C7_Witness ==
  /\ pc = "done"
  /\ ChainsIntersect
  /\ common \notin {None, start, finish}
  /\ parent(kids0, start) # common
  /\ parent(kids0, finish) = common

\* ------------------------------------------------------------------ C8
StartSide(k) == {a \in AncSelf(k, start) : common \in AncSelf(k, a) /\ a # common}

MarkerLost(m) == m.tag = "descendant" /\ m.element \notin Range(kids[common])

\* C9: the slice fails, returning the absent result, whenever the left-edge
\* marker or the right-edge marker is not among the common ancestor's children.
C9_SliceFailsOnLostMarker ==
  (pc = "done" /\ common # None /\ (MarkerLost(firstBreak) \/ MarkerLost(secondBreak))) =>
     result = OptionNone

\* ------------------------------------------------------------------ C10
\* C10: the predicate the breaks hand to breakPath is true of a node exactly
\* when the node has no parent or its parent is the common ancestor.
C10_IsTopIsParentTest ==
  (pc \in {"breakRight", "breakLeft"}) =>
     \A n \in live :
        isTop(kids, n) <=> (parent(kids, n) = None \/ parent(kids, n) = common)
====
